---- MODULE Spec2Model ----
(***************************************************************************)
(* State-machine model of the SEO agent's query pipeline                   *)
(* (src/seo_agent.py): plan synthesis, plan validation / repair and plan   *)
(* execution against the cached DataFrame.                                 *)
(***************************************************************************)
EXTENDS Integers, Sequences, FiniteSets, TLC

VARIABLES
    pc,          \* position inside process_request
    df,          \* self.df, the cached DataFrame
    user_query,  \* the question text (after whitespace normalisation)
    responses,   \* collaborator responses received by _plan_query, in order
    draft,       \* the value _plan_query returned
    plan,        \* the dict _validate_and_normalize_plan returned
    result,      \* the value _execute_plan returned
    answer,      \* what process_request returned to its caller
    llm_calls,   \* generate_completion calls made by this request, in order
    sheet_loads  \* _load_sheet calls made since the agent was constructed

vars == <<pc, df, user_query, responses, draft, plan, result, answer, llm_calls,
          sheet_loads>>

(***************************************************************************)
(* Python string primitives (TLC treats a string as a sequence of chars).  *)
(***************************************************************************)
CharAt(s, i) == SubSeq(s, i, i)

\* Python: p in s
Contains(s, p) ==
    \E i \in 1..(Len(s) - Len(p) + 1) : SubSeq(s, i, i + Len(p) - 1) = p

\* Python: s.startswith(p)
StartsWith(s, p) == Len(s) >= Len(p) /\ SubSeq(s, 1, Len(p)) = p

UpperChars == <<"A","B","C","D","E","F","G","H","I","J","K","L","M",
                "N","O","P","Q","R","S","T","U","V","W","X","Y","Z">>
LowerChars == <<"a","b","c","d","e","f","g","h","i","j","k","l","m",
                "n","o","p","q","r","s","t","u","v","w","x","y","z">>

LowerChar(c) ==
    IF \E k \in 1..26 : UpperChars[k] = c
    THEN LowerChars[CHOOSE k \in 1..26 : UpperChars[k] = c]
    ELSE c

RECURSIVE LowerFrom(_, _)
LowerFrom(s, i) ==
    IF i > Len(s) THEN "" ELSE LowerChar(CharAt(s, i)) \o LowerFrom(s, i + 1)

\* Python: s.lower()
Lower(s) == LowerFrom(s, 1)

IsSpace(c) == c \in {" ", "\t", "\n"}

RECURSIVE SplitFrom(_, _, _)
SplitFrom(s, i, cur) ==
    IF i > Len(s)
    THEN IF Len(cur) = 0 THEN <<>> ELSE <<cur>>
    ELSE IF IsSpace(CharAt(s, i))
         THEN IF Len(cur) = 0
              THEN SplitFrom(s, i + 1, "")
              ELSE <<cur>> \o SplitFrom(s, i + 1, "")
         ELSE SplitFrom(s, i + 1, cur \o CharAt(s, i))

\* Python: s.split()
Split(s) == SplitFrom(s, 1, "")

RECURSIVE Join(_, _)
\* Python: sep.join(ws)
Join(sep, ws) ==
    IF Len(ws) = 0 THEN ""
    ELSE IF Len(ws) = 1 THEN ws[1]
    ELSE ws[1] \o sep \o Join(sep, Tail(ws))

(***************************************************************************)
(* Python dict primitives; a dict is a function from its keys.             *)
(***************************************************************************)
EmptyDict == <<>>

Has(d, k) == k \in DOMAIN d

Put(d, k, v) == [x \in (DOMAIN d) \cup {k} |-> IF x = k THEN v ELSE d[x]]

SetDefault(d, k, v) == IF Has(d, k) THEN d ELSE Put(d, k, v)

(***************************************************************************)
(* JSON values.  A scalar carries its JSON type and its numeric value      *)
(* (Python compares False == 0 and True == 1 numerically).                 *)
(***************************************************************************)
JBool(b) == [type |-> "bool", num |-> IF b THEN 1 ELSE 0]
JInt(n) == [type |-> "int", num |-> n]

JObject(d) == [kind |-> "object", obj |-> d]
JArray == [kind |-> "array", obj |-> EmptyDict]
JNumber == [kind |-> "number", obj |-> EmptyDict]

\* Python: isinstance(v, dict)
IsDict(v) == v.kind = "object"

(***************************************************************************)
(* Field catalog.                                                          *)
(***************************************************************************)
FIELD_MAP ==
    [https |-> "uses_https",
     indexability |-> "is_indexable",
     title_length |-> "Title_1_Length",
     meta_description_length |-> "Meta_Description_1_Length",
     status_code |-> "Status_Code"]

NoneCol == "None"

\* Python: FIELD_MAP.get(key)
FieldMapGet(key) == IF key \in DOMAIN FIELD_MAP THEN FIELD_MAP[key] ELSE NoneCol

(***************************************************************************)
(* Exceptions: the message of the raised exception, NoError when none.     *)
(***************************************************************************)
NoError == ""
ErrPlanSynthesis == "Failed to generate a valid query plan."
ErrNoConditions == "Filter inferred but no conditions found."
ErrNoTopNField == "Top-N requires a ranking field and none could be inferred."
ErrRequiresField(op) == op \o " requires 'field'"

(***************************************************************************)
(* Plan validator / repairer.                                              *)
(***************************************************************************)
Cond(f, o, v) == [field |-> f, op |-> o, value |-> v]

\* mutant: "missing" is taken as a negation of https too
recover_conditions_from_query_mutant(q0) ==
    LET q == Lower(q0)
        c1 == IF Contains(q, "https")
                 /\ (Contains(q, "do not") \/ Contains(q, "not use")
                     \/ Contains(q, "without") \/ Contains(q, "missing"))
              THEN <<Cond("https", "=", JBool(FALSE))>> ELSE <<>>
        c2 == IF Contains(q, "title") /\ Contains(q, "60")
              THEN <<Cond("title_length", ">", JInt(60))>> ELSE <<>>
        c3 == IF Contains(q, "meta")
                 /\ (Contains(q, "missing") \/ Contains(q, "0"))
              THEN <<Cond("meta_description_length", "=", JInt(0))>> ELSE <<>>
        c4 == IF Contains(q, "non-indexable") \/ Contains(q, "not indexable")
              THEN <<Cond("indexability", "=", JBool(FALSE))>> ELSE <<>>
    IN [conditions |-> c1 \o c2 \o c3 \o c4,
        logic |-> IF Contains(q, " or ") THEN "or" ELSE "and"]

recover_conditions_from_query(q0) ==
    LET q == Lower(q0)
        c1 == IF Contains(q, "https")
                 /\ (Contains(q, "do not") \/ Contains(q, "not use")
                     \/ Contains(q, "without"))
              THEN <<Cond("https", "=", JBool(FALSE))>> ELSE <<>>
        c2 == IF Contains(q, "title") /\ Contains(q, "60")
              THEN <<Cond("title_length", ">", JInt(60))>> ELSE <<>>
        c3 == IF Contains(q, "meta")
                 /\ (Contains(q, "missing") \/ Contains(q, "0"))
              THEN <<Cond("meta_description_length", "=", JInt(0))>> ELSE <<>>
        c4 == IF Contains(q, "non-indexable") \/ Contains(q, "not indexable")
              THEN <<Cond("indexability", "=", JBool(FALSE))>> ELSE <<>>
    IN [conditions |-> c1 \o c2 \o c3 \o c4,
        logic |-> IF Contains(q, " or ") THEN "or" ELSE "and"]

NoField == "None"

\* mutant: the "meta" cue is tried before the "title" cue
recover_top_n_field_mutant(q0) ==
    LET q == Lower(q0)
    IN IF Contains(q, "meta") THEN "meta_description_length"
       ELSE IF Contains(q, "title") THEN "title_length"
       ELSE IF Contains(q, "status") \/ Contains(q, "error") THEN "status_code"
       ELSE NoField

recover_top_n_field(q0) ==
    LET q == Lower(q0)
    IN IF Contains(q, "title") THEN "title_length"
       ELSE IF Contains(q, "meta") THEN "meta_description_length"
       ELSE IF Contains(q, "status") \/ Contains(q, "error") THEN "status_code"
       ELSE NoField

\* mutant: the field test comes before the field-and-n test
infer_operation_mutant(p, q0) ==
    IF Has(p, "operation") THEN p
    ELSE IF Has(p, "conditions") THEN Put(p, "operation", "filter")
    ELSE IF Has(p, "field") THEN Put(p, "operation", "metric")
    ELSE IF Has(p, "field") /\ Has(p, "n") THEN Put(p, "operation", "top_n")
    ELSE LET q == Lower(q0)
         IN IF Contains(q, "top") THEN Put(p, "operation", "top_n")
            ELSE IF Contains(q, "group") THEN Put(p, "operation", "groupby")
            ELSE Put(p, "operation", "filter")

infer_operation(p, q0) ==
    IF Has(p, "operation") THEN p
    ELSE IF Has(p, "conditions") THEN Put(p, "operation", "filter")
    ELSE IF Has(p, "field") /\ Has(p, "n") THEN Put(p, "operation", "top_n")
    ELSE IF Has(p, "field") THEN Put(p, "operation", "metric")
    ELSE LET q == Lower(q0)
         IN IF Contains(q, "top") THEN Put(p, "operation", "top_n")
            ELSE IF Contains(q, "group") THEN Put(p, "operation", "groupby")
            ELSE Put(p, "operation", "filter")

Ok(p) == [plan |-> p, raised |-> NoError]
Raise(p, msg) == [plan |-> p, raised |-> msg]

\* Python: not plan.get("conditions")
ConditionsFalsy(p) == ~Has(p, "conditions") \/ Len(p["conditions"]) = 0

\* mutant: a filter left without conditions is returned, not rejected
repair_filter_mutant(p, q0) ==
    IF p["operation"] # "filter" THEN Ok(p)
    ELSE LET recovered == recover_conditions_from_query(q0)
             p1 == IF ConditionsFalsy(p)
                   THEN Put(Put(p, "conditions", recovered.conditions),
                            "logic", recovered.logic)
                   ELSE p
         IN Ok(SetDefault(p1, "logic", "and"))

repair_filter(p, q0) ==
    IF p["operation"] # "filter" THEN Ok(p)
    ELSE LET recovered == recover_conditions_from_query(q0)
             p1 == IF ConditionsFalsy(p)
                   THEN Put(Put(p, "conditions", recovered.conditions),
                            "logic", recovered.logic)
                   ELSE p
             p2 == SetDefault(p1, "logic", "and")
         IN IF Len(p2["conditions"]) = 0
            THEN Raise(p2, ErrNoConditions)
            ELSE Ok(p2)

repair_top_n(p, q0) ==
    IF p["operation"] # "top_n" THEN Ok(p)
    ELSE IF ~Has(p, "field")
         THEN LET recovered_field == recover_top_n_field(q0)
              IN IF recovered_field # NoField
                 THEN Ok(SetDefault(Put(p, "field", recovered_field), "n", 10))
                 ELSE Raise(p, ErrNoTopNField)
         ELSE Ok(SetDefault(p, "n", 10))

require_field(p) ==
    IF p["operation"] \in {"groupby", "metric"} /\ ~Has(p, "field")
    THEN Raise(p, ErrRequiresField(p["operation"]))
    ELSE Ok(p)

validate_and_normalize_plan(d, q0) ==
    LET p0 == IF IsDict(d) THEN d.obj ELSE EmptyDict
        p1 == infer_operation(p0, q0)
        f == repair_filter(p1, q0)
        t == IF f.raised # NoError THEN f ELSE repair_top_n(f.plan, q0)
    IN IF t.raised # NoError THEN t ELSE require_field(t.plan)

(***************************************************************************)
(* DataFrames: a set of column names and an ordered sequence of rows; the  *)
(* position of a row is its index label, which pandas keeps in every       *)
(* selection of the frame.                                                 *)
(***************************************************************************)
Frame(cols, rows) == [cols |-> cols, rows |-> rows]

\* Python: pd.DataFrame()
EmptyFrame == Frame({}, <<>>)

\* Python: df.empty
IsEmpty(f) == f.cols = {} \/ Len(f.rows) = 0

\* Python: df[name] = values  (one value per row)
SetColumn(f, name, values) ==
    Frame(f.cols \cup {name},
          [i \in 1..Len(f.rows) |-> Put(f.rows[i], name, values[i])])

NaN == "<NaN>"

FeatureCols ==
    {"uses_https", "is_indexable", "title_too_long", "title_missing",
     "meta_missing", "meta_too_long", "is_error"}

\* mutant: no default; the column is only set when its source exists
DerivedMutant(f, name, source, flags) ==
    IF source \in f.cols THEN SetColumn(f, name, flags) ELSE f

\* Python: df[name] = False, then, when the source column exists,
\* df[name] = <test on the source column>
Derived(f, name, source, flags) ==
    SetColumn(f, name,
              [i \in 1..Len(f.rows) |-> source \in f.cols /\ flags[i]])

enrich_features(f) ==
    IF IsEmpty(f) THEN f
    ELSE LET R == 1..Len(f.rows)
             Of(source) == [i \in R |-> f.rows[i][source]]
             f1 == Derived(f, "uses_https", "Address",
                     [i \in R |-> StartsWith(Of("Address")[i], "https")])
             f2 == Derived(f1, "is_indexable", "Indexability",
                     [i \in R |-> /\ Of("Indexability")[i] # NaN
                                  /\ Contains(Lower(Of("Indexability")[i]),
                                              Lower("Indexable"))])
             f3 == Derived(f2, "title_too_long", "Title_1_Length",
                     [i \in R |-> Of("Title_1_Length")[i] > 60])
             f4 == Derived(f3, "title_missing", "Title_1_Length",
                     [i \in R |-> Of("Title_1_Length")[i] = 0])
             f5 == Derived(f4, "meta_missing", "Meta_Description_1_Length",
                     [i \in R |-> Of("Meta_Description_1_Length")[i] = 0])
             f6 == Derived(f5, "meta_too_long", "Meta_Description_1_Length",
                     [i \in R |-> Of("Meta_Description_1_Length")[i] > 160])
         IN Derived(f6, "is_error", "Status_Code",
                     [i \in R |-> Of("Status_Code")[i] >= 400])

\* Python: s.strip()
str_strip(s) ==
    LET keep == {i \in 1..Len(s) : ~IsSpace(CharAt(s, i))}
    IN IF keep = {} THEN ""
       ELSE SubSeq(s, CHOOSE i \in keep : \A j \in keep : i <= j,
                      CHOOSE i \in keep : \A j \in keep : i >= j)

RECURSIVE str_replace(_, _, _)
\* Python: s.replace(old, new) for a one-character old
str_replace(s, old, new) ==
    IF Len(s) = 0 THEN ""
    ELSE (IF CharAt(s, 1) = old THEN new ELSE CharAt(s, 1))
             \o str_replace(SubSeq(s, 2, Len(s)), old, new)

\* the renaming of one column label in _normalize_schema
normalize_column(name) ==
    str_replace(str_replace(str_replace(str_replace(str_strip(name),
        " ", "_"), "(", ""), ")", ""), "-", "_")

numeric_cols ==
    {"Title_1_Length", "Meta_Description_1_Length", "Word_Count",
     "Status_Code", "Size_Bytes"}

Digits == <<"0", "1", "2", "3", "4", "5", "6", "7", "8", "9">>

IsDigit(c) == \E k \in 1..10 : Digits[k] = c

DigitValue(c) == (CHOOSE k \in 1..10 : Digits[k] = c) - 1

RECURSIVE ParseDigits(_, _)
ParseDigits(s, acc) ==
    IF Len(s) = 0 THEN acc
    ELSE ParseDigits(SubSeq(s, 2, Len(s)), 10 * acc + DigitValue(CharAt(s, 1)))

\* pd.to_numeric(text, errors="coerce") on the texts of the model: a run of
\* digits, with or without the ".0" of a float column, is that number; any
\* other text ("nan", "n/a", "") is NaN, written <<>>
to_numeric(text) ==
    LET whole == IF Len(text) > 2 /\ SubSeq(text, Len(text) - 1, Len(text)) = ".0"
                 THEN SubSeq(text, 1, Len(text) - 2)
                 ELSE text
    IN IF Len(whole) > 0 /\ \A i \in 1..Len(whole) : IsDigit(CharAt(whole, i))
       THEN <<ParseDigits(whole, 0)>>
       ELSE <<>>

\* df[col].astype(str).str.replace(",", "").pipe(pd.to_numeric,
\* errors="coerce").fillna(0) on one cell, given as its str() text
coerce_numeric(text) ==
    LET v == to_numeric(str_replace(text, ",", ""))
    IN IF Len(v) = 0 THEN 0 ELSE v[1]

normalize_schema(f) ==
    IF IsEmpty(f) THEN f
    ELSE LET renamed == {normalize_column(c) : c \in f.cols}
             raw == [c2 \in renamed |->
                       CHOOSE c \in f.cols : normalize_column(c) = c2]
         IN Frame(renamed,
                  [i \in 1..Len(f.rows) |->
                     [c2 \in renamed |->
                        IF c2 \in numeric_cols
                        THEN coerce_numeric(f.rows[i][raw[c2]])
                        ELSE f.rows[i][raw[c2]]]])

\* df["Indexability"].str raises AttributeError when the column holds no
\* string at all (a column of empty cells is read as float64)
str_accessor_raises(f) ==
    /\ ~IsEmpty(f)
    /\ "Indexability" \in f.cols
    /\ \A i \in 1..Len(f.rows) : f.rows[i]["Indexability"] = NaN

(***************************************************************************)
(* Execution engine.                                                       *)
(***************************************************************************)
\* The number pandas compares: a boolean cell counts as 0 or 1.
CellNum(f, i, col) ==
    IF col \in FeatureCols
    THEN IF f.rows[i][col] THEN 1 ELSE 0
    ELSE f.rows[i][col]

\* Python: df[col] <op> value, a boolean Series
Mask(f, col, op, value) ==
    [i \in 1..Len(f.rows) |->
        CASE op = "=" -> CellNum(f, i, col) = value.num
          [] op = ">" -> CellNum(f, i, col) > value.num
          [] op = "<" -> CellNum(f, i, col) < value.num]

RECURSIVE build_masks(_, _)
build_masks(f, conds) ==
    IF Len(conds) = 0 THEN <<>>
    ELSE LET cond == Head(conds)
             col == FieldMapGet(cond["field"])
             here == IF col \notin f.cols THEN <<>>
                     ELSE IF cond["op"] \in {"=", ">", "<"}
                          THEN <<Mask(f, col, cond["op"], cond["value"])>>
                          ELSE <<>>
         IN here \o build_masks(f, Tail(conds))

RECURSIVE fold_or(_, _)
fold_or(m, rest) ==
    IF Len(rest) = 0 THEN m
    ELSE fold_or([i \in DOMAIN m |-> m[i] \/ Head(rest)[i]], Tail(rest))

RECURSIVE fold_and(_, _)
fold_and(m, rest) ==
    IF Len(rest) = 0 THEN m
    ELSE fold_and([i \in DOMAIN m |-> m[i] /\ Head(rest)[i]], Tail(rest))

\* Python: plan.get(key, default)
Get(d, k, default) == IF Has(d, k) THEN d[k] ELSE default

RECURSIVE SelectIndex(_, _)
\* index labels of the rows a mask keeps, in frame order
SelectIndex(m, i) ==
    IF i > Len(m) THEN <<>>
    ELSE (IF m[i] THEN <<i>> ELSE <<>>) \o SelectIndex(m, i + 1)

NoPct == <<>>

RFrame(cols, index) ==
    [kind |-> "frame", cols |-> cols, index |-> index,
     groups |-> {}, percentage |-> NoPct, raised |-> NoError]
RDict(groups, pct) ==
    [kind |-> "dict", cols |-> <<>>, index |-> <<>>,
     groups |-> groups, percentage |-> pct, raised |-> NoError]
RRaise(msg) ==
    [kind |-> "raise", cols |-> <<>>, index |-> <<>>,
     groups |-> {}, percentage |-> NoPct, raised |-> msg]

KeyError(col) == "KeyError: " \o col

\* Python: frame[[c1, ...]] on the rows `index`
Project(f, index, cols) ==
    IF \E k \in 1..Len(cols) : cols[k] \notin f.cols
    THEN RRaise(KeyError(cols[CHOOSE k \in 1..Len(cols) : cols[k] \notin f.cols]))
    ELSE RFrame(cols, index)

AllIndex(f) == [i \in 1..Len(f.rows) |-> i]

\* mutant: "or" and "and" are exchanged
execute_filter_mutant(p, f) ==
    LET masks == build_masks(f, p["conditions"])
    IN IF Len(masks) = 0 THEN Project(f, AllIndex(f), <<"Address">>)
       ELSE LET final_mask == IF Get(p, "logic", "and") = "or"
                              THEN fold_and(Head(masks), Tail(masks))
                              ELSE fold_or(Head(masks), Tail(masks))
            IN Project(f, SelectIndex(final_mask, 1), <<"Address">>)

execute_filter(p, f) ==
    LET masks == build_masks(f, p["conditions"])
    IN IF Len(masks) = 0 THEN Project(f, AllIndex(f), <<"Address">>)
       ELSE LET final_mask == IF Get(p, "logic", "and") = "or"
                              THEN fold_or(Head(masks), Tail(masks))
                              ELSE fold_and(Head(masks), Tail(masks))
            IN Project(f, SelectIndex(final_mask, 1), <<"Address">>)

Min(a, b) == IF a <= b THEN a ELSE b
Max(a, b) == IF a >= b THEN a ELSE b

\* Python: frame.head(n), on the index labels
HeadN(index, n) ==
    IF n >= 0 THEN SubSeq(index, 1, Min(n, Len(index)))
    ELSE SubSeq(index, 1, Max(Len(index) + n, 0))

\* mutant: the rows are sorted in ascending order
SortOutcomesMutant(f, col) ==
    LET n == Len(f.rows)
    IN {s \in [1..n -> 1..n] :
            /\ \A i, j \in 1..n : i # j => s[i] # s[j]
            /\ \A i, j \in 1..n :
                 i < j => CellNum(f, s[i], col) <= CellNum(f, s[j], col)}

\* Python: df.sort_values(col, ascending=False).  The default sort kind is
\* quicksort, which is not stable: every descending arrangement of the rows
\* is a possible outcome.
SortOutcomes(f, col) ==
    LET n == Len(f.rows)
    IN {s \in [1..n -> 1..n] :
            /\ \A i, j \in 1..n : i # j => s[i] # s[j]
            /\ \A i, j \in 1..n :
                 i < j => CellNum(f, s[i], col) >= CellNum(f, s[j], col)}

NoOrder == <<>>

\* the sort outcomes _execute_plan can see for this plan
SortChoices(p, f) ==
    IF Has(p, "operation") /\ p["operation"] = "top_n" /\ Has(p, "field")
       /\ FieldMapGet(p["field"]) \in f.cols
    THEN SortOutcomes(f, FieldMapGet(p["field"]))
    ELSE {NoOrder}

execute_top_n(p, f, order) ==
    LET col == FieldMapGet(p["field"])
        n == Get(p, "n", 10)
    IN IF col \notin f.cols THEN RDict({}, NoPct)
       ELSE Project(f, HeadN(order, n), <<"Address", col>>)

CellKey(f, i, col) ==
    IF col \in FeatureCols THEN JBool(f.rows[i][col]) ELSE JInt(f.rows[i][col])

execute_groupby(p, f) ==
    LET col == FieldMapGet(p["field"])
    IN IF col = NoneCol
       THEN RRaise("TypeError: You have to supply one of 'by' and 'level'")
       ELSE IF col \notin f.cols THEN RRaise(KeyError(col))
       ELSE RDict({[key |-> CellKey(f, i, col),
                    count |-> Cardinality({j \in 1..Len(f.rows) :
                                  CellNum(f, j, col) = CellNum(f, i, col)})] :
                       i \in 1..Len(f.rows)},
                  NoPct)

RECURSIVE SumCol(_, _, _)
SumCol(f, col, i) ==
    IF i > Len(f.rows) THEN 0 ELSE CellNum(f, i, col) + SumCol(f, col, i + 1)

\* num / den rounded to an integer, ties to even (Python round)
RoundHalfEven(num, den) ==
    LET q == num \div den
        r == num % den
    IN IF 2 * r > den THEN q + 1
       ELSE IF 2 * r = den THEN q + (q % 2)
       ELSE q

\* a percentage with two decimals, held in hundredths; nan for 0 / 0
Pct(isnan, hundredths) == <<[nan |-> isnan, hundredths |-> hundredths]>>

execute_metric(p, f) ==
    LET col == FieldMapGet(p["field"])
    IN IF col \notin f.cols THEN RRaise(KeyError(col))
       ELSE IF Len(f.rows) = 0 THEN RDict({}, Pct(TRUE, 0))
       ELSE RDict({}, Pct(FALSE,
                          RoundHalfEven(10000 * SumCol(f, col, 1), Len(f.rows))))

execute_plan(p, f, order) ==
    IF p["operation"] = "filter" THEN execute_filter(p, f)
    ELSE IF p["operation"] = "top_n" THEN execute_top_n(p, f, order)
    ELSE IF p["operation"] = "groupby" THEN execute_groupby(p, f)
    ELSE IF p["operation"] = "metric" THEN execute_metric(p, f)
    ELSE RDict({}, NoPct)

(***************************************************************************)
(* Plan synthesizer: the collaborator's response text as a token sequence. *)
(***************************************************************************)
Tok(kind, v) == [tok |-> kind, val |-> v]
Fence == Tok("fence", JNumber)   \* three backticks
JsonWord == Tok("json", JNumber)
Ws == Tok("whitespace", JNumber)
Prose == Tok("prose", JNumber)
JsonTok(v) == Tok("value", v)

\* a response: None, or a text
NoneResponse == [none |-> TRUE, toks |-> <<>>]
Text(toks) == [none |-> FALSE, toks |-> toks]

RECURSIVE remove_fence_json(_)
\* Python: text.replace(fence + "json", "")
remove_fence_json(toks) ==
    IF Len(toks) = 0 THEN <<>>
    ELSE IF Len(toks) >= 2 /\ toks[1] = Fence /\ toks[2] = JsonWord
         THEN remove_fence_json(SubSeq(toks, 3, Len(toks)))
         ELSE <<Head(toks)>> \o remove_fence_json(Tail(toks))

\* Python: text.replace(fence, "")
remove_fence(toks) == SelectSeq(toks, LAMBDA x : x # Fence)

RECURSIVE strip(_)
\* Python: text.strip()
strip(toks) ==
    IF Len(toks) = 0 THEN toks
    ELSE IF Head(toks) = Ws THEN strip(Tail(toks))
    ELSE IF toks[Len(toks)] = Ws THEN strip(SubSeq(toks, 1, Len(toks) - 1))
    ELSE toks

cleaned(r) == strip(remove_fence(remove_fence_json(r.toks)))

\* Python: not plan_text or not plan_text.strip()
IsBlank(r) == r.none \/ Len(strip(r.toks)) = 0

\* json.loads succeeds exactly on a text that is one JSON value
JsonDecodes(toks) == Len(toks) = 1 /\ toks[1].tok = "value"
json_loads(toks) == toks[1].val

\* one pass of the loop body yields a plan
Parses(r) == ~IsBlank(r) /\ JsonDecodes(cleaned(r))

\* mutant: the loop runs once more
MaxAttemptsMutant == 3 + 1

\* range(3)
MaxAttempts == 3

(***************************************************************************)
(* What process_request returns.                                           *)
(***************************************************************************)
NoAnswer == [kind |-> "none", text |-> "", index |-> <<>>]
AnsNoData == [kind |-> "message", text |-> "SEO data could not be loaded.",
              index |-> <<>>]
AnsNoMatch == [kind |-> "message",
               text |-> "No URLs matched the specified conditions.",
               index |-> <<>>]
AnsTable(index) == [kind |-> "table", text |-> "", index |-> index]
AnsExplained == [kind |-> "explanation", text |-> "", index |-> <<>>]
AnsSystemError(msg) == [kind |-> "message", text |-> "System Error: " \o msg,
                        index |-> <<>>]

NoDraft == [kind |-> "none", obj |-> EmptyDict]
NoResult == [kind |-> "none", cols |-> <<>>, index |-> <<>>,
             groups |-> {}, percentage |-> NoPct, raised |-> NoError]

(***************************************************************************)
(* Inputs: question texts, collaborator drafts, loaded sheets.             *)
(***************************************************************************)
Questions ==
    {"show me pages with title over 60 and https missing",
     "Top 5 pages by title length",
     "top pages",
     "group pages by status code",
     "which pages do not use https or have title over 60",
     "pages with meta description missing",
     "non-indexable pages without HTTPS",
     "hello",
     "stop",
     "top errors",
     "  pages   that are NOT   indexable  ",
     "top meta or title",
     "metadata 2024",
     "what percentage of pages use https"}

\* Python: " ".join(user_query.split())
NormalizeQuery(q) == Join(" ", Split(q))

Opt(S) == {<<>>} \cup {<<x>> : x \in S}
PutOpt(d, k, o) == IF Len(o) = 0 THEN d ELSE Put(d, k, o[1])
MkDraft(o, c, l, f, n) ==
    PutOpt(PutOpt(PutOpt(PutOpt(PutOpt(EmptyDict, "operation", o),
        "conditions", c), "logic", l), "field", f), "n", n)

CTitle == Cond("title_length", ">", JInt(60))
CHttps == Cond("https", "=", JBool(FALSE))
CStatus == Cond("status_code", "<", JInt(404))
CWords == Cond("word_count", ">", JInt(100))
CNotEq == Cond("status_code", "!=", JInt(200))

DraftOperations == {"filter", "top_n", "groupby", "metric", "sort"}
DraftConditions == {<<>>, <<CTitle>>, <<CHttps, CStatus>>}
DraftLogics == {"and", "or", "xor"}
DraftFields == {"title_length", "https", "status_code", "word_count"}
DraftNs == {1, 3}

\* what the collaborator may send to the validator: any JSON value
ValidateDrafts ==
    {JObject(MkDraft(o, c, l, f, n)) :
        o \in Opt(DraftOperations), c \in Opt(DraftConditions),
        l \in Opt(DraftLogics), f \in Opt(DraftFields), n \in Opt(DraftNs)}
    \cup {JArray, JNumber}

Row(a, ix, t, m, s) ==
    [Address |-> a, Indexability |-> ix, Title_1_Length |-> t,
     Meta_Description_1_Length |-> m, Status_Code |-> s]

AllCols ==
    {"Address", "Indexability", "Title_1_Length",
     "Meta_Description_1_Length", "Status_Code"}

RowUniverse ==
    {Row("https://a", "Indexable", 80, 0, 200),
     Row("http://b", "Non-Indexable", 80, 170, 404),
     Row("https://c", NaN, 0, 100, 500)}

\* the title lengths 10, 80, 0, 45, 95
ExampleRows ==
    <<Row("https://p1", "Indexable", 10, 50, 200),
      Row("https://p2", "Indexable", 80, 50, 200),
      Row("http://p3", "Non-Indexable", 0, 0, 404),
      Row("https://p4", "Indexable", 45, 170, 200),
      Row("http://p5", "Indexable", 95, 50, 500)>>

\* every sheet carries the Address identity column; the others may be missing
ColumnSets ==
    {AllCols,
     AllCols \ {"Meta_Description_1_Length"},
     AllCols \ {"Title_1_Length", "Status_Code", "Indexability"}}

\* the sheet as _load_sheet and _normalize_schema deliver it
Sheet(cols, rows) ==
    Frame(cols, [i \in 1..Len(rows) |-> [c \in cols |-> rows[i][c]]])

MaxRows == 3

RowSeqs == UNION {[1..n -> RowUniverse] : n \in 1..MaxRows}

\* the non-empty sheets the constructor builds a Dataset from
Sheets ==
    {t \in {Sheet(cs, rs) : cs \in ColumnSets, rs \in RowSeqs} :
        ~str_accessor_raises(t)}
    \cup {Sheet(AllCols, ExampleRows)}

\* The sheet as _load_sheet returns it: the column labels of the export and
\* one text per cell (a numeric cell is given by its str() text).
RawRow(a, ix, t, m, s, b) ==
    ("Address" :> a) @@ ("Indexability" :> ix) @@ ("Title 1 Length" :> t)
    @@ ("Meta Description 1 Length" :> m) @@ (" Status-Code " :> s)
    @@ ("Size (Bytes)" :> b)

RawSourceCols ==
    {"Address", "Indexability", "Title 1 Length",
     "Meta Description 1 Length", " Status-Code "}

RawRowUniverse ==
    {RawRow("https://a", "Indexable", "80", "0", "200", "1,024"),
     RawRow("http://b", "Non-Indexable", "1,200", "170.0", "404", "nan"),
     RawRow("HTTPS://c", NaN, "n/a", "nan", "500", "2048")}

RawColumnSets ==
    ((SUBSET RawSourceCols) \ {{}}) \cup {RawSourceCols \cup {"Size (Bytes)"}}

RawRowSeqs == UNION {[1..n -> RawRowUniverse] : n \in 0..MaxRows}

\* pd.DataFrame() when no URL could be read, else the parsed export
RawSheets ==
    {EmptyFrame} \cup {Sheet(cs, rs) : cs \in RawColumnSets, rs \in RawRowSeqs}

ExecConds == {CTitle, CHttps, CStatus, CWords}

MaxConds == 2

CondSeqs == UNION {[1..n -> ExecConds] : n \in 1..MaxConds}

\* drafts that validate to the plans the execution engine is given
ExecDrafts ==
    {MkDraft(<<"filter">>, <<c>>, l, <<>>, <<>>) :
        c \in CondSeqs, l \in Opt({"and", "or"})}
    \cup {MkDraft(<<"filter">>, <<c>>, <<"and">>, <<>>, <<>>) :
            c \in {<<CNotEq>>, <<CNotEq, CTitle>>}}
    \cup {MkDraft(<<"top_n">>, <<>>, <<>>, <<f>>, n) :
            f \in DraftFields, n \in Opt(DraftNs)}
    \cup {MkDraft(<<o>>, <<>>, <<>>, <<f>>, <<>>) :
            o \in {"groupby", "metric"}, f \in DraftFields}
    \cup {MkDraft(<<"sort">>, <<>>, <<>>, <<>>, <<>>)}

(***************************************************************************)
(* process_request, one action per step.                                   *)
(***************************************************************************)
\* mutant: the failure handler goes on to the explanation step
FailMutant(msg) == answer' = AnsSystemError(msg) /\ pc' = "explain"

\* except Exception as e: return f"System Error: {str(e)}"
Fail(msg) == answer' = AnsSystemError(msg) /\ pc' = "done"

\* entry: whitespace normalisation and the empty-data early return
Receive(q) ==
    /\ pc \in {"idle", "done"}
    /\ user_query' = NormalizeQuery(q)
    /\ responses' = <<>>
    /\ draft' = NoDraft
    /\ plan' = EmptyDict
    /\ result' = NoResult
    /\ llm_calls' = <<>>
    /\ IF IsEmpty(df)
       THEN answer' = AnsNoData /\ pc' = "done"
       ELSE answer' = NoAnswer /\ pc' = "plan"
    /\ UNCHANGED <<df, sheet_loads>>

\* one pass of the loop of _plan_query: the collaborator answers r
PlanAttempt(r) ==
    /\ pc = "plan"
    /\ Len(responses) < MaxAttempts
    /\ responses' = Append(responses, r)
    /\ llm_calls' = Append(llm_calls, "plan")
    /\ IF Parses(r)
       THEN draft' = json_loads(cleaned(r)) /\ pc' = "validate"
                /\ UNCHANGED answer
       ELSE IF Len(responses) + 1 = MaxAttempts
            THEN Fail(ErrPlanSynthesis) /\ UNCHANGED draft
            ELSE UNCHANGED <<pc, draft, answer>>
    /\ UNCHANGED <<df, sheet_loads, user_query, plan, result>>

ErrCollaborator == "Failed to make API call after multiple retries."

\* generate_completion raises inside _plan_query
PlanCallRaises ==
    /\ pc = "plan"
    /\ Len(responses) < MaxAttempts
    /\ llm_calls' = Append(llm_calls, "plan")
    /\ Fail(ErrCollaborator)
    /\ UNCHANGED <<df, sheet_loads, user_query, responses, draft, plan, result>>

Validate ==
    /\ pc = "validate"
    /\ LET v == validate_and_normalize_plan(draft, user_query)
       IN IF v.raised # NoError
          THEN Fail(v.raised) /\ UNCHANGED plan
          ELSE plan' = v.plan /\ pc' = "execute" /\ UNCHANGED answer
    /\ UNCHANGED <<df, sheet_loads, user_query, responses, draft, result, llm_calls>>

TableRows == 50

\* mutant: a table result is explained by the collaborator too
ExecuteExplainsTablesMutant ==
    /\ pc = "execute"
    /\ \E order \in SortChoices(plan, df) :
         LET r == execute_plan(plan, df, order)
         IN /\ result' = r
            /\ IF r.kind = "raise" THEN Fail(r.raised)
               ELSE pc' = "explain" /\ UNCHANGED answer
    /\ UNCHANGED <<df, sheet_loads, user_query, responses, draft, plan, llm_calls>>

\* mutant: _execute_plan works on self.df itself instead of a copy, and a
\* row selection is written back to it
ExecuteInPlaceMutant ==
    /\ pc = "execute"
    /\ \E order \in SortChoices(plan, df) :
         LET r == execute_plan(plan, df, order)
         IN /\ result' = r
            /\ df' = IF r.kind = "frame"
                     THEN Frame(df.cols,
                                [k \in 1..Len(r.index) |-> df.rows[r.index[k]]])
                     ELSE df
            /\ IF r.kind = "raise" THEN Fail(r.raised)
               ELSE IF r.kind = "frame"
                    THEN /\ pc' = "done"
                         /\ answer' = IF Len(r.index) = 0 THEN AnsNoMatch
                                      ELSE AnsTable(HeadN(r.index, TableRows))
                    ELSE pc' = "explain" /\ UNCHANGED answer
    /\ UNCHANGED <<sheet_loads, user_query, responses, draft, plan, llm_calls>>

Execute ==
    /\ pc = "execute"
    /\ \E order \in SortChoices(plan, df) :
         LET r == execute_plan(plan, df, order)
         IN /\ result' = r
            /\ IF r.kind = "raise" THEN Fail(r.raised)
               ELSE IF r.kind = "frame"
                    THEN /\ pc' = "done"
                         /\ answer' = IF Len(r.index) = 0 THEN AnsNoMatch
                                      ELSE AnsTable(HeadN(r.index, TableRows))
                    ELSE pc' = "explain" /\ UNCHANGED answer
    /\ UNCHANGED <<df, sheet_loads, user_query, responses, draft, plan, llm_calls>>

\* _explain: one collaborator call, whose text is returned
Explain ==
    /\ pc = "explain"
    /\ llm_calls' = Append(llm_calls, "explain")
    /\ answer' = AnsExplained
    /\ pc' = "done"
    /\ UNCHANGED <<df, sheet_loads, user_query, responses, draft, plan, result>>

ExplainCallRaises ==
    /\ pc = "explain"
    /\ llm_calls' = Append(llm_calls, "explain")
    /\ Fail(ErrCollaborator)
    /\ UNCHANGED <<df, sheet_loads, user_query, responses, draft, plan, result>>

\* SEOAgent.__init__ after self.df = self._load_sheet(): the sheet is
\* normalised and enriched, or the constructor raises
Construct ==
    /\ pc = "loaded"
    /\ LET normalized == normalize_schema(df)
       IN IF str_accessor_raises(normalized)
          THEN pc' = "raised" /\ UNCHANGED df
          ELSE pc' = "idle" /\ df' = enrich_features(normalized)
    /\ UNCHANGED <<sheet_loads, user_query, responses, draft, plan, result,
                   answer, llm_calls>>

(***************************************************************************)
(* The pipeline: SEOAgent() then any number of process_request calls.      *)
(***************************************************************************)
PipelineSheets ==
    {EmptyFrame,
     Sheet(AllCols, ExampleRows),
     Sheet(AllCols \ {"Title_1_Length", "Status_Code", "Indexability"},
           SubSeq(ExampleRows, 1, 2))}

PipelineQuestions ==
    {"show me pages with title over 60 and https missing",
     "Top 5 pages by title length",
     "group pages by status code",
     "  pages   that are NOT   indexable  ",
     "hello"}

PipelineDrafts ==
    {JObject(EmptyDict),
     JObject([operation |-> "filter", conditions |-> <<CTitle, CHttps>>,
              logic |-> "or"]),
     JObject([field |-> "status_code"]),
     JObject([operation |-> "top_n", field |-> "title_length", n |-> 3]),
     JObject([operation |-> "groupby", field |-> "status_code"]),
     JObject([operation |-> "metric", field |-> "https"]),
     JObject([operation |-> "metric", field |-> "word_count"]),
     JObject([operation |-> "sort"]),
     JArray}

FencedDraft == JObject([operation |-> "metric", field |-> "https"])

\* what the collaborator may answer to one planning call
PipelineResponses ==
    {NoneResponse,
     Text(<<>>),
     Text(<<Ws>>),
     Text(<<Prose>>),
     Text(<<Prose, Ws, JsonTok(FencedDraft)>>),
     Text(<<Fence, JsonWord, Ws, JsonTok(FencedDraft), Ws, Fence>>),
     Text(<<Fence, Ws, JsonTok(FencedDraft), Ws, Fence>>)}
    \cup {Text(<<JsonTok(d)>>) : d \in PipelineDrafts}

Init ==
    /\ pc = "idle"
    /\ df \in {enrich_features(s) : s \in PipelineSheets}
    /\ user_query = ""
    /\ responses = <<>>
    /\ draft = NoDraft
    /\ plan = EmptyDict
    /\ result = NoResult
    /\ answer = NoAnswer
    /\ llm_calls = <<>>
    /\ sheet_loads = 1

Next ==
    \/ \E q \in PipelineQuestions : Receive(q)
    \/ \E r \in PipelineResponses : PlanAttempt(r)
    \/ PlanCallRaises
    \/ Validate
    \/ Execute
    \/ Explain
    \/ ExplainCallRaises

Spec == Init /\ [][Next]_vars

(***************************************************************************)
(* The validator as a function of (draft, question).                       *)
(***************************************************************************)
InitValidate ==
    /\ pc = "validate"
    /\ df = enrich_features(Sheet(AllCols, ExampleRows))
    /\ user_query \in {NormalizeQuery(q) : q \in Questions}
    /\ draft \in ValidateDrafts
    /\ responses = <<Text(<<JsonTok(draft)>>)>>
    /\ plan = EmptyDict
    /\ result = NoResult
    /\ answer = NoAnswer
    /\ llm_calls = <<"plan">>
    /\ sheet_loads = 1

NextValidate == Validate

SpecValidate == InitValidate /\ [][NextValidate]_vars

(***************************************************************************)
(* The execution engine on every validated plan and non-empty Dataset.     *)
(***************************************************************************)
InitExec ==
    /\ pc = "execute"
    /\ df \in {enrich_features(s) : s \in Sheets}
    /\ user_query = "hello"
    /\ draft \in {JObject(d) : d \in ExecDrafts}
    /\ validate_and_normalize_plan(draft, user_query).raised = NoError
    /\ plan = validate_and_normalize_plan(draft, user_query).plan
    /\ responses = <<Text(<<JsonTok(draft)>>)>>
    /\ result = NoResult
    /\ answer = NoAnswer
    /\ llm_calls = <<"plan">>
    /\ sheet_loads = 1

NextExec == Execute

SpecExec == InitExec /\ [][NextExec]_vars

(***************************************************************************)
(* The execution engine called on an empty Dataset: pd.DataFrame() after a *)
(* failed load, or a sheet that has a header row and no data rows.  Both   *)
(* _normalize_schema and _enrich_features return such a frame untouched.   *)
(***************************************************************************)
EmptySheets == {EmptyFrame} \cup {Frame(cs, <<>>) : cs \in ColumnSets}

InitExecEmpty ==
    /\ pc = "execute"
    /\ df \in {enrich_features(s) : s \in EmptySheets}
    /\ user_query = "hello"
    /\ draft \in {JObject(d) : d \in ExecDrafts}
    /\ validate_and_normalize_plan(draft, user_query).raised = NoError
    /\ plan = validate_and_normalize_plan(draft, user_query).plan
    /\ responses = <<Text(<<JsonTok(draft)>>)>>
    /\ result = NoResult
    /\ answer = NoAnswer
    /\ llm_calls = <<"plan">>
    /\ sheet_loads = 1

NextExecEmpty == Execute

SpecExecEmpty == InitExecEmpty /\ [][NextExecEmpty]_vars

(***************************************************************************)
(* The normalizer: construction of the agent from every loaded sheet.      *)
(***************************************************************************)
InitConstruct ==
    /\ pc = "loaded"
    /\ df \in RawSheets
    /\ user_query = ""
    /\ responses = <<>>
    /\ draft = NoDraft
    /\ plan = EmptyDict
    /\ result = NoResult
    /\ answer = NoAnswer
    /\ llm_calls = <<>>
    /\ sheet_loads = 1

NextConstruct == Construct

SpecConstruct == InitConstruct /\ [][NextConstruct]_vars

(***************************************************************************)
(* Properties of the validator (checked under SpecValidate).               *)
(***************************************************************************)
\* the dict the validator works on: the draft, or {} for a non-dict
DraftDict == IF IsDict(draft) THEN draft.obj ELSE EmptyDict

Validated == pc = "execute"
Rejected(msg) == pc = "done" /\ answer = AnsSystemError(msg)
ValidatorDone == pc \in {"execute", "done"}

\* the operation the validator settled on, read from what it returned or
\* from the failure it raised
ObservedOperation ==
    IF Validated THEN plan["operation"]
    ELSE IF Rejected(ErrNoConditions) THEN "filter"
    ELSE IF Rejected(ErrNoTopNField) THEN "top_n"
    ELSE IF Rejected(ErrRequiresField("groupby")) THEN "groupby"
    ELSE IF Rejected(ErrRequiresField("metric")) THEN "metric"
    ELSE "unknown"

OperationComplete(p) ==
    /\ Has(p, "operation")
    /\ p["operation"] \in {"filter", "top_n", "groupby", "metric"}
    /\ p["operation"] = "filter" =>
          /\ Has(p, "conditions") /\ Len(p["conditions"]) > 0
          /\ Has(p, "logic") /\ p["logic"] \in {"and", "or"}
    /\ p["operation"] = "top_n" => Has(p, "field") /\ Has(p, "n")
    /\ p["operation"] \in {"groupby", "metric"} => Has(p, "field")

\* C1: whenever the validator returns, the plan is operation-complete: its
\* operation is one of filter, top_n, groupby, metric and it carries the
\* fields that operation requires.
C1_ValidatedPlanIsOperationComplete == Validated => OperationComplete(plan)

\* C3: without an operation key the operation is inferred as conditions =>
\* filter, else field and n => top_n, else field => metric, else by the
\* question ("top" => top_n, else "group" => groupby, else filter); with an
\* operation key it is left as given; {"field": "status_code"} gives metric.
C3_ExpectedOperation ==
    LET d == DraftDict
        q == Lower(user_query)
    IN IF Has(d, "operation") THEN d["operation"]
       ELSE IF Has(d, "conditions") THEN "filter"
       ELSE IF Has(d, "field") /\ Has(d, "n") THEN "top_n"
       ELSE IF Has(d, "field") THEN "metric"
       ELSE IF Contains(q, "top") THEN "top_n"
       ELSE IF Contains(q, "group") THEN "groupby"
       ELSE "filter"

C3_OperationInference ==
    ValidatorDone =>
        /\ ObservedOperation = C3_ExpectedOperation
        /\ draft = JObject([field |-> "status_code"]) =>
              Validated /\ plan["operation"] = "metric"

C3_Witness ==
    /\ Validated
    /\ draft = JObject([field |-> "status_code"])
    /\ plan["operation"] = "metric"

\* C4: for a filter plan with absent or empty conditions the validator
\* recovers conditions from the question; when none is recovered it fails
\* with the unrecoverable-plan error and returns no plan; a logic still
\* absent after that is set to "and".
C4_FilterRepair ==
    (ValidatorDone /\ ObservedOperation = "filter") =>
        LET d == DraftDict
            recovered == recover_conditions_from_query(user_query)
        IN /\ (ConditionsFalsy(d) /\ Len(recovered.conditions) = 0) =>
                  Rejected(ErrNoConditions) /\ plan = EmptyDict
           /\ (ConditionsFalsy(d) /\ Len(recovered.conditions) > 0) =>
                  Validated /\ plan["conditions"] = recovered.conditions
           /\ ~ConditionsFalsy(d) =>
                  /\ Validated
                  /\ plan["conditions"] = d["conditions"]
                  /\ ~Has(d, "logic") => plan["logic"] = "and"
           /\ Validated => Has(plan, "logic")

C4_Witness ==
    /\ Rejected(ErrNoConditions)
    /\ Has(DraftDict, "operation") /\ DraftDict["operation"] = "filter"
    /\ Has(DraftDict, "conditions") /\ Len(DraftDict["conditions"]) = 0

\* C5: for a top_n plan an absent field is inferred from the question
\* ("title" => title_length, else "meta" => meta_description_length, else
\* "status" or "error" => status_code); with no cue validation fails with
\* the unrecoverable-plan error; an absent n becomes 10, a given n is kept.
C5_ExpectedField ==
    LET q == Lower(user_query)
    IN IF Contains(q, "title") THEN "title_length"
       ELSE IF Contains(q, "meta") THEN "meta_description_length"
       ELSE IF Contains(q, "status") \/ Contains(q, "error") THEN "status_code"
       ELSE "no cue"

C5_TopNRepair ==
    (ValidatorDone /\ ObservedOperation = "top_n") =>
        LET d == DraftDict
        IN /\ (~Has(d, "field") /\ C5_ExpectedField = "no cue") =>
                  Rejected(ErrNoTopNField) /\ plan = EmptyDict
           /\ (~Has(d, "field") /\ C5_ExpectedField # "no cue") =>
                  Validated /\ plan["field"] = C5_ExpectedField
           /\ Has(d, "field") => Validated /\ plan["field"] = d["field"]
           /\ Validated =>
                  /\ Has(plan, "n")
                  /\ plan["n"] = IF Has(d, "n") THEN d["n"] ELSE 10

C5_Witness ==
    /\ Validated
    /\ ObservedOperation = "top_n"
    /\ ~Has(DraftDict, "field") /\ ~Has(DraftDict, "n")
    /\ user_query = "top meta or title"
    /\ plan["field"] = "title_length"
    /\ plan["n"] = 10

\* C6: every key the draft carries with a value (a non-empty conditions
\* list, a logic, a field, an n, an operation) has the same value in the
\* validated plan; recovery only fills in what is absent or empty.
C6_ExplicitDraftIsKept ==
    Validated =>
        \A k \in DOMAIN DraftDict :
            (k = "conditions" => Len(DraftDict[k]) > 0) =>
                Has(plan, k) /\ plan[k] = DraftDict[k]

C7Question == "show me pages with title over 60 and https missing"

C7Case ==
    /\ ValidatorDone
    /\ draft = JObject(EmptyDict)
    /\ user_query = C7Question

\* C7 as stated: the empty draft with this question gives a filter with two
\* recovered conditions and logic "and".
C7_TwoConditionsRecovered ==
    C7Case =>
        /\ Validated
        /\ plan["operation"] = "filter"
        /\ Len(plan["conditions"]) = 2
        /\ plan["logic"] = "and"

\* C7 (amended): the empty draft with this question gives a filter with the
\* single recovered condition title_length > 60 and logic "and".
C7_OneConditionRecovered ==
    C7Case =>
        /\ Validated
        /\ plan["operation"] = "filter"
        /\ plan["conditions"] = <<Cond("title_length", ">", JInt(60))>>
        /\ plan["logic"] = "and"

C7_Witness == C7Case /\ Validated /\ Len(plan["conditions"]) = 1

(***************************************************************************)
(* Properties of the execution engine (checked under SpecExec).            *)
(***************************************************************************)
Executed == result # NoResult

Rows == 1..Len(df.rows)

IsIncreasing(s) == \A a, b \in 1..Len(s) : a < b => s[a] < s[b]

Range(s) == {s[k] : k \in 1..Len(s)}

\* the conditions of the plan whose field resolves to an existing column
C8_Contributing ==
    {k \in 1..Len(plan["conditions"]) :
        /\ plan["conditions"][k]["field"] \in DOMAIN FIELD_MAP
        /\ FIELD_MAP[plan["conditions"][k]["field"]] \in df.cols}

\* row i matches condition k
C8_Matches(k, i) ==
    LET c == plan["conditions"][k]
        cell == df.rows[i][FIELD_MAP[c["field"]]]
        num == IF c["field"] \in {"https", "indexability"}
               THEN IF cell THEN 1 ELSE 0
               ELSE cell
    IN CASE c["op"] = "=" -> num = c["value"].num
         [] c["op"] = ">" -> num > c["value"].num
         [] c["op"] = "<" -> num < c["value"].num

C8_Selected(i) ==
    IF C8_Contributing = {} THEN TRUE
    ELSE IF plan["logic"] = "or"
         THEN \E k \in C8_Contributing : C8_Matches(k, i)
         ELSE \A k \in C8_Contributing : C8_Matches(k, i)

C8Case ==
    /\ Executed
    /\ plan["operation"] = "filter"
    /\ \A k \in 1..Len(plan["conditions"]) :
          plan["conditions"][k]["op"] \in {"=", ">", "<"}

\* C8: a filter plan returns the Address projection of exactly the rows
\* selected by the conditions whose field resolves to an existing column
\* (intersection under "and", union under "or"; unresolved conditions are
\* skipped; all rows when none contributes), in Dataset order.
C8_FilterSelectsRows ==
    C8Case =>
        /\ result.kind = "frame"
        /\ result.cols = <<"Address">>
        /\ IsIncreasing(result.index)
        /\ Range(result.index) = {i \in Rows : C8_Selected(i)}

C8_Witness ==
    /\ C8Case
    /\ plan["logic"] = "or"
    /\ plan["conditions"] = <<CWords, CHttps>>
    /\ Len(result.index) > 0
    /\ Len(result.index) < Len(df.rows)

\* the plan names a field that has no column in the Dataset
C9_FieldUnresolved ==
    IF plan["operation"] = "filter"
    THEN \E k \in 1..Len(plan["conditions"]) :
            \/ plan["conditions"][k]["field"] \notin DOMAIN FIELD_MAP
            \/ FIELD_MAP[plan["conditions"][k]["field"]] \notin df.cols
    ELSE \/ plan["field"] \notin DOMAIN FIELD_MAP
         \/ FIELD_MAP[plan["field"]] \notin df.cols

\* C9: for each of filter, top_n, groupby and metric, a field key that does
\* not resolve, or resolves to a column the Dataset lacks, never aborts
\* execution with an error.
C9_UnresolvedFieldNeverAborts ==
    (/\ Executed
     /\ plan["operation"] \in {"filter", "top_n", "groupby", "metric"}
     /\ C9_FieldUnresolved)
        => result.kind # "raise"

C10Case == Executed /\ plan["operation"] = "top_n"

C10_Col == FIELD_MAP[plan["field"]]

C10_Resolved ==
    plan["field"] \in DOMAIN FIELD_MAP /\ C10_Col \in df.cols

C10_Value(i) ==
    IF plan["field"] \in {"https", "indexability"}
    THEN IF df.rows[i][C10_Col] THEN 1 ELSE 0
    ELSE df.rows[i][C10_Col]

\* the place of row i in the stable descending order
C10_StableRank(i) ==
    1 + Cardinality({j \in Rows :
            \/ C10_Value(j) > C10_Value(i)
            \/ (C10_Value(j) = C10_Value(i) /\ j < i)})

C10_Size == IF plan["n"] <= Len(df.rows) THEN plan["n"] ELSE Len(df.rows)

C10_Example ==
    (/\ df = enrich_features(Sheet(AllCols, ExampleRows))
     /\ plan["field"] = "title_length"
     /\ plan["n"] = 3)
        => result.index = <<5, 2, 4>>

\* C10 as stated: top_n returns the first n rows of the stable descending
\* sort by the resolved column (equal values keep their Dataset order),
\* min(n, rows) rows with Address and the ranking column; lengths
\* 10, 80, 0, 45, 95 with n = 3 give 95, 80, 45; an unresolved field gives
\* an empty result.
C10_TopNStableSort ==
    C10Case =>
        IF C10_Resolved
        THEN /\ result.kind = "frame"
             /\ result.cols = <<"Address", C10_Col>>
             /\ Len(result.index) = C10_Size
             /\ \A k \in 1..Len(result.index) :
                    C10_StableRank(result.index[k]) = k
             /\ C10_Example
        ELSE result = RDict({}, NoPct)

\* C10 (amended): top_n returns the first n rows of a descending sort by
\* the resolved column, rows with equal values in any relative order:
\* min(n, rows) distinct rows with Address and the ranking column, in
\* descending order, none smaller than a row left out; lengths
\* 10, 80, 0, 45, 95 with n = 3 give 95, 80, 45; an unresolved field gives
\* an empty result.
C10_TopNDescending ==
    C10Case =>
        IF C10_Resolved
        THEN /\ result.kind = "frame"
             /\ result.cols = <<"Address", C10_Col>>
             /\ Len(result.index) = C10_Size
             /\ Range(result.index) \subseteq Rows
             /\ \A a, b \in 1..Len(result.index) :
                    a < b => /\ result.index[a] # result.index[b]
                             /\ C10_Value(result.index[a])
                                    >= C10_Value(result.index[b])
             /\ \A i \in Range(result.index) :
                    \A j \in Rows \ Range(result.index) :
                        C10_Value(i) >= C10_Value(j)
             /\ C10_Example
        ELSE result = RDict({}, NoPct)

C10_Witness ==
    /\ C10Case
    /\ df = enrich_features(Sheet(AllCols, ExampleRows))
    /\ plan["field"] = "title_length"
    /\ plan["n"] = 3
    /\ result.index = <<5, 2, 4>>

(***************************************************************************)
(* Properties of the plan synthesizer (checked under Spec).                *)
(***************************************************************************)
PlanCalls == Len(SelectSeq(llm_calls, LAMBDA c : c = "plan"))

\* _plan_query returned a plan for the current question
C2_Returned == draft # NoDraft

\* the response text is a JSON object (after the fence removal and strip)
C2_IsJsonObject(r) == Parses(r) /\ IsDict(json_loads(cleaned(r)))

\* C2 as stated: at most 3 collaborator calls; _plan_query returns at the
\* first response that parses as a JSON object and calls no more after it;
\* when none of the 3 responses is a parseable JSON object it fails with
\* the plan-synthesis failure and returns no plan.
C2_StopsAtFirstJsonObject ==
    /\ PlanCalls <= 3
    /\ \A i \in 1..Len(responses) :
          C2_IsJsonObject(responses[i]) => i = Len(responses)
    /\ C2_Returned =>
          /\ Len(responses) >= 1
          /\ C2_IsJsonObject(responses[Len(responses)])
          /\ draft = json_loads(cleaned(responses[Len(responses)]))
    /\ (/\ Len(responses) = 3
        /\ \A i \in 1..3 : ~C2_IsJsonObject(responses[i]))
          => ~C2_Returned /\ Rejected(ErrPlanSynthesis)

\* C2 (amended): at most 3 collaborator calls; _plan_query returns at the
\* first response that parses as JSON (any JSON value, an object or not)
\* and calls no more after it, whatever the value holds; when none of the
\* 3 responses parses as JSON it fails with the plan-synthesis failure and
\* returns no plan.
C2_StopsAtFirstJsonValue ==
    /\ PlanCalls <= 3
    /\ \A i \in 1..Len(responses) : Parses(responses[i]) => i = Len(responses)
    /\ C2_Returned =>
          /\ Len(responses) >= 1
          /\ Parses(responses[Len(responses)])
          /\ draft = json_loads(cleaned(responses[Len(responses)]))
    /\ (Len(responses) >= 1 /\ Parses(responses[Len(responses)]))
          => C2_Returned /\ PlanCalls = Len(responses)
    /\ (/\ Len(responses) = 3
        /\ \A i \in 1..3 : ~Parses(responses[i]))
          => ~C2_Returned /\ Rejected(ErrPlanSynthesis)

C2_Witness ==
    /\ Len(responses) = 3
    /\ C2_Returned
    /\ ~IsDict(draft)
    /\ pc = "validate"

(***************************************************************************)
(* The execution engine on an empty Dataset (checked under SpecExecEmpty). *)
(***************************************************************************)
C11Case ==
    /\ Executed
    /\ IsEmpty(df)
    /\ plan["operation"] \in {"filter", "top_n", "groupby", "metric"}

\* the natural empty result of the plan's operation
C11_NaturalEmptyResult ==
    CASE plan["operation"] \in {"filter", "top_n"} ->
            result.kind = "frame" /\ Len(result.index) = 0
      [] plan["operation"] = "groupby" ->
            result.kind = "dict" /\ result.groups = {}
                /\ result.percentage = NoPct
      [] plan["operation"] = "metric" ->
            result.kind = "dict" /\ result.percentage = Pct(FALSE, 0)

C12_QueryObservesEmpty == pc \in {"idle", "done"} /\ IsEmpty(df)

\* C12: the Dataset is reloaded lazily.  The step of a query that observes
\* the Dataset empty makes one more _load_sheet call (whose product then
\* replaces the Dataset wholesale), and no other step loads or replaces
\* the Dataset; so an agent that started empty can serve a later query
\* from a non-empty Dataset.
C12_ReloadWhenObservedEmpty ==
    [][/\ C12_QueryObservesEmpty => sheet_loads' = sheet_loads + 1
       /\ ~C12_QueryObservesEmpty => sheet_loads' = sheet_loads /\ df' = df]_vars

\* what the code does instead: an agent constructed with an empty Dataset
\* keeps it, and answers every query with the no-data message
C12_EmptyForever ==
    [][IsEmpty(df) => /\ IsEmpty(df')
                      /\ sheet_loads' = sheet_loads
                      /\ answer' = AnsNoData]_vars

(***************************************************************************)
(* Step order and failure propagation in process_request (under Spec).     *)
(***************************************************************************)
ExplainCalls == Len(SelectSeq(llm_calls, LAMBDA c : c = "explain"))

\* the current query got past the empty-data early return
C13_Planning == pc \notin {"idle"} /\ answer # AnsNoData

\* _plan_query ended without a plan
C13_SynthesisFailed == C13_Planning /\ pc = "done" /\ draft = NoDraft

\* _validate_and_normalize_plan ran on the draft and raised
C13_ValidationFailed ==
    /\ C13_Planning
    /\ draft # NoDraft
    /\ pc # "validate"
    /\ validate_and_normalize_plan(draft, user_query).raised # NoError

\* the engine was not invoked and no explanation was asked for
C13_NotExecuted == result = NoResult /\ ExplainCalls = 0

\* C13: the steps run in the order synthesize, validate, execute.  When
\* synthesis fails (no parseable plan within the attempt budget, or the
\* collaborator call fails) or validation fails, the caller gets a failure
\* carrying the message, the engine is not invoked for the query and no
\* explanation call is made.  The engine runs only on the plan the
\* validator returned for a draft the synthesizer returned, and its result
\* is the result of the whole plan.
C13_FailuresStopThePipeline ==
    /\ C13_SynthesisFailed =>
          /\ answer \in {AnsSystemError(ErrPlanSynthesis),
                          AnsSystemError(ErrCollaborator)}
          /\ plan = EmptyDict
          /\ C13_NotExecuted
    /\ C13_ValidationFailed =>
          /\ pc = "done"
          /\ answer = AnsSystemError(
                 validate_and_normalize_plan(draft, user_query).raised)
          /\ plan = EmptyDict
          /\ C13_NotExecuted
    /\ draft # NoDraft =>
          /\ Len(responses) >= 1
          /\ Parses(responses[Len(responses)])
    /\ plan # EmptyDict =>
          /\ draft # NoDraft
          /\ validate_and_normalize_plan(draft, user_query) = Ok(plan)
    /\ pc \in {"plan", "validate", "execute"} => C13_NotExecuted
    /\ result # NoResult =>
          /\ plan # EmptyDict
          /\ result \in {execute_plan(plan, df, o) : o \in SortChoices(plan, df)}

C13_Witness ==
    /\ C13_ValidationFailed
    /\ Len(responses) = 3
    /\ user_query = "group pages by status code"
    /\ answer = AnsSystemError(ErrRequiresField("groupby"))

(***************************************************************************)
(* The Dataset is read-only while queries are served (under Spec).         *)
(***************************************************************************)
\* the step that enters process_request
C14_QueryStarts == pc \in {"idle", "done"}

\* C14: no step of process_request changes the Dataset, whatever the plan
\* and whatever the outcome (table, explanation, validation failure,
\* execution error): it keeps its rows, columns and values over any
\* sequence of queries.  A query starts without the draft, plan, result
\* and collaborator responses of the query before it.
C14_DatasetIsReadOnly ==
    [][/\ df' = df
       /\ C14_QueryStarts =>
             /\ draft' = NoDraft
             /\ plan' = EmptyDict
             /\ result' = NoResult
             /\ responses' = <<>>
             /\ llm_calls' = <<>>]_vars

\* a query whose execution selected some rows and not others has ended
C14_Witness ==
    /\ pc = "done"
    /\ result.kind = "frame"
    /\ Len(result.index) > 0
    /\ Len(result.index) < Len(df.rows)
    /\ answer = AnsTable(result.index)

(***************************************************************************)
(* Properties of the normalizer (checked under SpecConstruct).             *)
(***************************************************************************)
\* the column each derived feature is computed from
C15_Source ==
    [uses_https |-> "Address", is_indexable |-> "Indexability",
     title_too_long |-> "Title_1_Length", title_missing |-> "Title_1_Length",
     meta_missing |-> "Meta_Description_1_Length",
     meta_too_long |-> "Meta_Description_1_Length",
     is_error |-> "Status_Code"]

\* the loaded sheet has no column that is renamed to the feature's source
C15_SourceMissing(c) ==
    \A raw \in df.cols : normalize_column(raw) # C15_Source[c]

\* C15: in every Dataset the constructor produces from a loaded sheet, each
\* row has a boolean value for each of the seven derived feature columns,
\* and a feature whose source column is missing from the loaded sheet is
\* false in every row.
C15_FeaturesAreTotal ==
    [][(pc = "loaded" /\ pc' = "idle") =>
          \A i \in 1..Len(df'.rows) : \A c \in FeatureCols :
              /\ c \in DOMAIN df'.rows[i]
              /\ df'.rows[i][c] \in BOOLEAN
              /\ C15_SourceMissing(c) => df'.rows[i][c] = FALSE]_vars

\* a Dataset built from a sheet without title lengths, one of whose rows
\* has no indexability text
C15_Witness ==
    /\ pc = "idle"
    /\ Len(df.rows) = 2
    /\ "Title_1_Length" \notin df.cols
    /\ {"Indexability", "Status_Code"} \subseteq df.cols
    /\ df.rows[1]["is_indexable"]
    /\ df.rows[2]["Indexability"] = NaN
    /\ ~df.rows[2]["is_indexable"]
    /\ df.rows[2]["is_error"]
    /\ ~df.rows[1]["title_too_long"] /\ ~df.rows[1]["title_missing"]

(***************************************************************************)
(* Collaborator calls of one process_request call (under Spec).            *)
(***************************************************************************)
\* planning calls first, then at most one explanation call; 4 at most
C16_CallOrder ==
    \E k \in 0..3 : \E e \in 0..1 :
        llm_calls = [i \in 1..(k + e) |-> IF i <= k THEN "plan" ELSE "explain"]

\* an explanation is asked for only once the engine has returned a result
\* that is not a row table
C16_ExplainsOnlyNonTables == ExplainCalls > 0 => result.kind = "dict"

\* a table result ends the call with no explanation
C16_TableEndsTheCall ==
    result.kind = "frame" =>
        /\ pc = "done"
        /\ ExplainCalls = 0
        /\ answer \in {AnsNoMatch, AnsTable(HeadN(result.index, TableRows))}

\* when _execute_plan has returned or raised, the calls made so far are
\* the planner's, one per response it received
C16_EngineMakesNoCall ==
    (pc = "explain" \/ result.kind \in {"frame", "raise"}) =>
        llm_calls = [i \in 1..Len(responses) |-> "plan"]

C16_Calls ==
    /\ C16_CallOrder
    /\ C16_ExplainsOnlyNonTables
    /\ C16_TableEndsTheCall
    /\ C16_EngineMakesNoCall

\* C16 as stated: every process_request call makes 1 to 3 planning calls,
\* then at most one explanation call (4 calls at most, in that order); the
\* explanation call comes only after execution returned a result that is
\* not a row table; a table result is returned without a further call;
\* _execute_plan makes no call.
C16_OneToThreePlanningCalls ==
    /\ C16_Calls
    /\ pc = "done" => PlanCalls \in 1..3

\* C16 (amended): a process_request call that finds the Dataset empty makes
\* no collaborator call at all; every other call makes 1 to 3 planning
\* calls, then at most one explanation call (4 calls at most, in that
\* order); the explanation call comes only after execution returned a
\* result that is not a row table; a table result is returned without a
\* further call; _execute_plan makes no call.
C16_PlanningCallsUnlessEmpty ==
    /\ C16_Calls
    /\ pc = "done" =>
          IF IsEmpty(df) THEN llm_calls = <<>> /\ answer = AnsNoData
          ELSE PlanCalls \in 1..3

C16_Witness ==
    /\ pc = "done"
    /\ llm_calls = <<"plan", "plan", "plan", "explain">>
    /\ result.kind = "dict"
    /\ plan["operation"] = "groupby"
    /\ answer = AnsExplained

====
